---- MODULE Spec2Model ----
(***************************************************************************)
(* Model of miningsim.py: the block tree with its fork/tip markers, the    *)
(* MiningTip window and difficulty adjustment, the miners and the          *)
(* Simulation event loop.                                                  *)
(*                                                                         *)
(* Python floats (difficulty, chainwork, hashrate, rates) are modelled as  *)
(* exact rationals [n, d] in lowest terms.  The simulated clock, a float   *)
(* number of seconds, is counted in ticks of 1/TicksPerSecond second, so   *)
(* that int(newtime) really truncates.                                     *)
(***************************************************************************)
EXTENDS Integers, Sequences, FiniteSets, TLC

(***************************************************************************)
(* Bounds of the model.                                                    *)
(***************************************************************************)
MaxBlocks == 2          \* blocks committed by run in Spec (next_id <= MaxBlocks)
MaxCalls == 4           \* newblock calls in SpecTree (next_id <= MaxCalls)
MaxStamp == 1           \* timestamps given to direct newblock calls: 0..MaxStamp
MaxDifficulty == 2      \* difficulties given to direct newblock calls: 0..MaxDifficulty
MaxMiners == 2          \* size of the live miner collection
MaxHashrate == 1        \* hashrates of constructed miners: 0..MaxHashrate
MaxTicks == 3           \* the clock and until_time stay within 0..MaxTicks ticks
TicksPerSecond == 2     \* resolution of the float clock
MaxHeight == 148        \* length of the chains grown in SpecTip
MaxDeltaT == 2          \* inter-arrival draws: 1..MaxDeltaT ticks, or infinite
MaxCrew == 3            \* SpecPoll: sizes of the mixed miner collections
InitialDifficulty == 2  \* BlockTree(initial_difficulty)

(***************************************************************************)
(* Program constants.                                                      *)
(***************************************************************************)
None == 0 - 1           \* Python's None where a block id is expected
NoPoint == 0            \* Python's None where a BlockPoint is expected
HistoryKeep == 146      \* history[-146:]
DAAMinLen == 147        \* len(history) < 147
WalkLen == 146          \* [None]*146, range(145,-1,-1)
TargetSpacing == 600    \* 600 in 72*600, 288*600 and w*600./ts
ClampLowBlocks == 72
ClampHighBlocks == 288
TipsCapacity == 45      \* np.empty((45),dtype=object)

(***************************************************************************)
(* Exact rationals for Python's floats.                                    *)
(***************************************************************************)
Abs(x) == IF x < 0 THEN 0 - x ELSE x

RECURSIVE GCD(_, _)
GCD(a, b) == IF b = 0 THEN a ELSE GCD(b, a % b)

Rat(n, d) ==
    LET g == GCD(Abs(n), Abs(d))
        s == IF d < 0 THEN 0 - 1 ELSE 1
    IN  [n |-> (s * n) \div g, d |-> (s * d) \div g]

RInt(k) == [n |-> k, d |-> 1]
RAdd(x, y) == Rat(x.n * y.d + y.n * x.d, x.d * y.d)
RSub(x, y) == Rat(x.n * y.d - y.n * x.d, x.d * y.d)
RMulInt(x, k) == Rat(x.n * k, x.d)
RDivInt(x, k) == Rat(x.n, x.d * k)
RDiv(x, y) == Rat(x.n * y.d, x.d * y.n)
RLess(x, y) == x.n * y.d < y.n * x.d
RLeq(x, y) == x.n * y.d <= y.n * x.d

Min(a, b) == IF a < b THEN a ELSE b
Max(a, b) == IF a > b THEN a ELSE b

VARIABLES
    blocks,      \* the Block objects of the tree: id -> Block
    next_id,     \* BlockTree.next_id
    points,      \* the BlockPoint objects: index -> [block, parentpoint, forks]
    nextpoint,   \* BlockTree.nextpoint: block id -> index of a BlockPoint
    bestblock,   \* BlockTree.bestblock (a block id)
    miners,      \* Simulation.miners: sequence of miner objects
    time,        \* Simulation.time, in ticks
    stopping,    \* Simulation.stopping
    running,     \* TRUE while a call to run() is inside its loop
    maxruntime,  \* the argument of the current run() call, in ticks
    last,        \* what the last operation did (history variable)
    plan,        \* SpecTip: the chain being grown (timestamps and difficulties)
    tips         \* SpecTip: the tips built for the head of the chain

vars == <<blocks, next_id, points, nextpoint, bestblock, miners, time,
          stopping, running, maxruntime, last, plan, tips>>

treeVars == <<blocks, next_id, points, nextpoint, bestblock>>
simVars == <<miners, time, stopping, running, maxruntime>>
tipVars == <<plan, tips>>

(***************************************************************************)
(* Block and BlockPoint.                                                   *)
(***************************************************************************)
Block(id, parent, height, timestamp, difficulty, chainwork) ==
    [id |-> id, parent |-> parent, height |-> height, timestamp |-> timestamp,
     difficulty |-> difficulty, chainwork |-> chainwork]

BlockPoint(block, parentpoint) ==
    [block |-> block, parentpoint |-> parentpoint, forks |-> <<>>]

\* A tree as addblock sees and changes it.
Tree(bl, pts, np, best) ==
    [blocks |-> bl, points |-> pts, nextpoint |-> np, bestblock |-> best]

CurrentTree == Tree(blocks, points, nextpoint, bestblock)

\* BlockTree.__init__
BlockTreeInit(initial_difficulty) ==
    Tree(0 :> Block(0, None, 0, 0, initial_difficulty, RInt(0)),
         <<BlockPoint(0, NoPoint)>>,
         0 :> 1,
         0)

Raised(t, exc) == [tree |-> t, exc |-> exc]
Returned(t) == [tree |-> t, exc |-> "none"]

\* lines 68-69: the tree-wide best block
UpdateBestOnTie(t, block) ==
    IF RLeq(t.blocks[t.bestblock].chainwork, block.chainwork)
    THEN block.id ELSE t.bestblock

UpdateBest(t, block) ==
    IF RLess(t.blocks[t.bestblock].chainwork, block.chainwork)
    THEN block.id ELSE t.bestblock


\* BlockTree.addblock.  block.parent is the id of the parent Block object.
addblock(t, block) ==
    IF block.id \in DOMAIN t.nextpoint
    THEN Raised(t, "AssertionError")
    ELSE IF block.parent \notin DOMAIN t.nextpoint
    THEN \* line 42: self.nextpoint[pb.id] for a parent that was never added
         Raised(t, "KeyError")
    ELSE
    LET pb == block.parent
        pp == t.nextpoint[pb]
        np == Len(t.points) + 1
        bl == (block.id :> block) @@ t.blocks
    IN  IF t.points[pp].block = pb
        THEN IF t.points[pp].forks # <<>>
             THEN \* the point was a fork -- add a new branch
                  LET pts == [Append(t.points, BlockPoint(block.id, pp))
                                EXCEPT ![pp].forks = Append(@, np)]
                      t2 == Tree(bl, pts, (block.id :> np) @@ t.nextpoint, t.bestblock)
                  IN  Returned([t2 EXCEPT !.bestblock = UpdateBest(t, block)])
             ELSE \* the point was a tip -- just move forward
                  LET pts == [t.points EXCEPT ![pp].block = block.id]
                      t2 == Tree(bl, pts, (block.id :> pp) @@ t.nextpoint, t.bestblock)
                  IN  Returned([t2 EXCEPT !.bestblock = UpdateBest(t, block)])
        ELSE \* line 57 reads pp.parent: BlockPoint has __slots__ block,
             \* parentpoint, forks and no attribute parent, so the read raises
             \* before anything is changed
             Raised(t, "AttributeError")

NewBlockRecordOwnWork(t, id, parent, timestamp, difficulty) ==
    Block(id, parent, t.blocks[parent].height + 1, timestamp, difficulty,
          difficulty)

\* BlockTree.newblock: the Block it builds
NewBlockRecord(t, id, parent, timestamp, difficulty) ==
    Block(id, parent, t.blocks[parent].height + 1, timestamp, difficulty,
          RAdd(t.blocks[parent].chainwork, difficulty))

newblock(t, id, parent, timestamp, difficulty) ==
    addblock(t, NewBlockRecord(t, id, parent, timestamp, difficulty))

(***************************************************************************)
(* MiningTip: [block, history, next_difficulty]; history holds block ids.  *)
(***************************************************************************)
\* history[-k:] of a Python list
LastK(history, k) ==
    IF Len(history) <= k THEN history
    ELSE SubSeq(history, Len(history) - k + 1, Len(history))

\* lines 93-95: the window kept by a tip
TipWindowShort(nblock, history) == Append(LastK(history, HistoryKeep - 1), nblock)

TipWindow(nblock, history) == Append(LastK(history, HistoryKeep), nblock)

\* lines 106-107
ClampNone(ts) == ts

ClampElapsed(ts) ==
    Min(ClampHighBlocks * TargetSpacing, Max(ClampLowBlocks * TargetSpacing, ts))

\* lines 98-110: the difficulty of the next block
NextDifficultyOffByOne(bl, nblock, history) ==
    IF Len(history) < DAAMinLen
    THEN bl[nblock].difficulty
    ELSE LET b_last == bl[history[Len(history) - 1]]
             b_first == bl[history[Len(history) - 144]]
             ts == ClampElapsed(b_last.timestamp - b_first.timestamp)
             w == RSub(b_last.chainwork, b_first.chainwork)
         IN  RDivInt(RMulInt(w, TargetSpacing), ts)

NextDifficulty(bl, nblock, history) ==
    IF Len(history) < DAAMinLen
    THEN bl[nblock].difficulty
    ELSE LET b_last == bl[history[Len(history) - 1]]      \* history[-2]
             b_first == bl[history[Len(history) - 145]]   \* history[-146]
             ts == ClampElapsed(b_last.timestamp - b_first.timestamp)
             w == RSub(b_last.chainwork, b_first.chainwork)
         IN  RDivInt(RMulInt(w, TargetSpacing), ts)

\* MiningTip.__init__
MiningTip(bl, nblock, history) ==
    LET h == TipWindow(nblock, history)
    IN  [block |-> nblock, history |-> h,
         next_difficulty |-> NextDifficulty(bl, nblock, h)]

\* MiningTip.from_parent_tip
from_parent_tip(bl, nblock, parent) == MiningTip(bl, nblock, parent.history)

\* The blocks the loop of from_block visits: `block`, its parent, and so on
\* up to genesis, at most n of them, nearest first (split in halves to keep
\* the evaluation shallow).
RECURSIVE Visited(_, _, _)
Visited(bl, block, n) ==
    IF n = 0 \/ block = None THEN <<>>
    ELSE IF n = 1 THEN <<block>>
    ELSE LET half == n \div 2
             near == Visited(bl, block, half)
         IN  IF Len(near) < half THEN near
             ELSE near \o Visited(bl, bl[near[half]].parent, n - half)

\* lines 120-126: the loop of from_block.  Iteration t runs with i = 146 - t
\* on the t-th ancestor seen[t]: it stores it in diffs[i], or breaks when
\* there is none.  The i the loop ends with: the i of the break, or 0 when
\* the range is exhausted.
WalkEnd(seen) ==
    IF Len(seen) < WalkLen THEN WalkLen - 1 - Len(seen) ELSE 0

\* line 127: diffs[i+1:], where diffs[j] = seen[146 - j] for every j the
\* loop has stored
WalkSlice(seen, i) ==
    [t \in 1..(WalkLen - (i + 1)) |-> seen[WalkLen - (i + t)]]

\* MiningTip.from_block
from_block(bl, nblock) ==
    LET seen == Visited(bl, bl[nblock].parent, WalkLen)
    IN  MiningTip(bl, nblock, WalkSlice(seen, WalkEnd(seen)))

(***************************************************************************)
(* Miners: [kind, hashrate, diff_threshold, besttip].  The chaintips list  *)
(* and the name are written once and never read, and are left out.         *)
(***************************************************************************)
\* BasicMiner.__init__, with starttip = MiningTip.from_block(blocktree.bestblock)
BasicMiner(starttip, hashrate) ==
    [kind |-> "basic", hashrate |-> hashrate, diff_threshold |-> RInt(0),
     besttip |-> starttip]

\* SwitchMiner.__init__
SwitchMiner(starttip, hashrate, diff_threshold) ==
    [BasicMiner(starttip, hashrate) EXCEPT
        !.kind = "switch", !.diff_threshold = diff_threshold]

\* BasicMiner.receiveblock
receiveblockOnTie(bl, m, newtip) ==
    IF RLeq(bl[m.besttip.block].chainwork, bl[newtip.block].chainwork)
    THEN [m EXCEPT !.besttip = newtip] ELSE m

receiveblock(bl, m, newtip) ==
    IF RLess(bl[m.besttip.block].chainwork, bl[newtip.block].chainwork)
    THEN [m EXCEPT !.besttip = newtip] ELSE m

\* BasicMiner.minedblock: a bare return, so None; TRUE would hide the block
minedblock(m, newtip) == FALSE

\* BasicMiner.getmining and SwitchMiner.getmining
getminingAtThreshold(m) ==
    IF m.kind = "switch"
    THEN IF RLeq(m.besttip.next_difficulty, m.diff_threshold)
         THEN [hr |-> m.hashrate, tip |-> m.besttip]
         ELSE [hr |-> 0, tip |-> m.besttip]
    ELSE [hr |-> m.hashrate, tip |-> m.besttip]

getmining(m) ==
    IF m.kind = "switch"
    THEN IF RLess(m.besttip.next_difficulty, m.diff_threshold)
         THEN [hr |-> m.hashrate, tip |-> m.besttip]
         ELSE [hr |-> 0, tip |-> m.besttip]
    ELSE [hr |-> m.hashrate, tip |-> m.besttip]

(***************************************************************************)
(* Simulation.nextblock                                                    *)
(***************************************************************************)
\* lines 208-214: hashrates / difficulties, in the collection's order
Rates(ms) ==
    [i \in 1..Len(ms) |->
        RDiv(RInt(getmining(ms[i]).hr), getmining(ms[i]).tip.next_difficulty)]

\* np.cumsum: entry i is base + rates[lo] + ... + rates[i], the running sum
\* (built in halves to keep the evaluation shallow)
RECURSIVE CumRange(_, _, _, _)
CumRange(rates, lo, hi, base) ==
    IF lo > hi THEN <<>>
    ELSE IF lo = hi THEN <<RAdd(base, rates[lo])>>
    ELSE LET mid == (lo + hi) \div 2
             left == CumRange(rates, lo, mid, base)
         IN  left \o CumRange(rates, mid + 1, hi, left[Len(left)])

cumsum(rates) == CumRange(rates, 1, Len(rates), RInt(0))

\* np.argmin of a boolean array: the first index holding False, or the first
\* index when every entry is True (indices here start at 1)
argmin(flags) ==
    IF \E i \in 1..Len(flags) : ~flags[i]
    THEN CHOOSE i \in 1..Len(flags) :
            ~flags[i] /\ \A j \in 1..(i - 1) : flags[j]
    ELSE 1

\* line 224
WinnerIdxGeq(ratesum, u) == argmin([i \in 1..Len(ratesum) |-> RLess(ratesum[i], u)])

WinnerIdx(ratesum, u) == argmin([i \in 1..Len(ratesum) |-> RLeq(ratesum[i], u)])

\* An inter-arrival draw: a number of ticks, or infinite.
Finite(v) == [inf |-> FALSE, v |-> v]
Infinite == [inf |-> TRUE, v |-> 0]

\* lines 220-221: np.random.exponential(1./totalrate); 1./0. is inf in numpy
\* (a warning, no exception) and the draw is then inf
ExponentialDraws(totalrate) ==
    IF totalrate.n = 0 THEN {Infinite} ELSE {Finite(v) : v \in 1..MaxDeltaT}

\* line 224: np.random.uniform(0, totalrate), in [0, totalrate): 0, every
\* prefix sum below totalrate, and a point inside every step of the sums
UniformDraws(ratesum) ==
    LET totalrate == ratesum[Len(ratesum)]
        below(i) == IF i = 1 THEN RInt(0) ELSE ratesum[i - 1]
        edges == {below(i) : i \in 1..Len(ratesum)}
        mids == {RDivInt(RAdd(below(i), ratesum[i]), 2) : i \in 1..Len(ratesum)}
    IN  IF totalrate.n = 0 THEN {RInt(0)}
        ELSE {x \in edges \cup mids : RLess(x, totalrate)}

ExceedsByMoreThanATick(now, deltaT, until) ==
    deltaT.inf \/ now + deltaT.v > until + 1

\* line 182: newtime > maxruntime
Exceeds(now, deltaT, until) == deltaT.inf \/ now + deltaT.v > until

\* line 189: int(newtime), for a clock that is never negative
TimestampRoundedUp(newtime) == (newtime + TicksPerSecond - 1) \div TicksPerSecond

Timestamp(newtime) == newtime \div TicksPerSecond

\* Simulation.__init__: the attributes a Simulation object has
SimulationAttrs == {"blocktree", "miners", "time", "stopping"}

(***************************************************************************)
(* The state and the operations.                                           *)
(***************************************************************************)
\* `last` before any operation
NoCall ==
    [op |-> "none", exc |-> "none", parent |-> None, newid |-> None,
     onpoint |-> TRUE, time0 |-> 0, until |-> 0, deltaT |-> Finite(0),
     u |-> RInt(0), ratesum |-> <<>>, winner |-> 0,
     exceeded |-> FALSE, committed |-> FALSE, delivered |-> FALSE,
     offer |-> <<>>]

NoPlan == [spacing |-> 0, jump |-> 0, step |-> 0]
NoTips == <<>>

Init ==
    /\ blocks = BlockTreeInit(RInt(InitialDifficulty)).blocks
    /\ points = BlockTreeInit(RInt(InitialDifficulty)).points
    /\ nextpoint = BlockTreeInit(RInt(InitialDifficulty)).nextpoint
    /\ bestblock = BlockTreeInit(RInt(InitialDifficulty)).bestblock
    /\ next_id = 1
    /\ miners = <<>>
    /\ time = 0
    /\ stopping = FALSE
    /\ running = FALSE
    /\ maxruntime = 0
    /\ last = NoCall
    /\ plan = NoPlan
    /\ tips = NoTips

SetTree(t) ==
    /\ blocks' = t.blocks
    /\ points' = t.points
    /\ nextpoint' = t.nextpoint
    /\ bestblock' = t.bestblock

\* the marker governing block b holds b itself (lines 42-43)
OnPoint(t, b) == t.points[t.nextpoint[b]].block = b

\* A caller's blocktree.newblock(parent, timestamp, difficulty).  An
\* exception leaves the tree as addblock left it, with next_id advanced.
NewBlock(parent, timestamp, difficulty) ==
    /\ ~running
    /\ next_id <= MaxCalls
    /\ LET r == newblock(CurrentTree, next_id, parent, timestamp, difficulty)
       IN  /\ SetTree(r.tree)
           /\ last' = [NoCall EXCEPT !.op = "newblock", !.exc = r.exc,
                          !.parent = parent, !.newid = next_id,
                          !.onpoint = OnPoint(CurrentTree, parent)]
    /\ next_id' = next_id + 1
    /\ UNCHANGED <<simVars, tipVars>>

\* A caller's sim.miners.append(BasicMiner(...)) or SwitchMiner(...)
AddMiner(m) ==
    /\ ~running
    /\ Len(miners) < MaxMiners
    /\ miners' = Append(miners, m)
    /\ last' = NoCall
    /\ UNCHANGED <<treeVars, time, stopping, running, maxruntime, tipVars>>

\* test_off.py line 22: sim.miners.pop(i)
PopMiner(i) ==
    /\ ~running
    /\ miners' = [j \in 1..(Len(miners) - 1) |->
                    IF j < i THEN miners[j] ELSE miners[j + 1]]
    /\ last' = NoCall
    /\ UNCHANGED <<treeVars, time, stopping, running, maxruntime, tipVars>>

\* test_off.py line 24: sim.time += dt
AdvanceTime(dt) ==
    /\ ~running
    /\ time + dt <= MaxTicks
    /\ time' = time + dt
    /\ last' = NoCall
    /\ UNCHANGED <<treeVars, miners, stopping, running, maxruntime, tipVars>>

\* run(maxruntime) up to its loop: line 178
RunCall(until) ==
    /\ ~running
    /\ stopping' = FALSE
    /\ running' = TRUE
    /\ maxruntime' = until
    /\ last' = NoCall
    /\ UNCHANGED <<treeVars, miners, time, tipVars>>

\* One iteration of the loop of run with the draws deltaT and u: lines 180-199.
\* (ratesum, winner_idx, r and newtip are bound once, as the locals they are)
Iteration(deltaT, u) ==
    \E ratesum \in {cumsum(Rates(miners))} :
    \E winner_idx \in {WinnerIdx(ratesum, u)} :
    \E r \in {newblock(CurrentTree, next_id,
                       getmining(miners[winner_idx]).tip.block,
                       Timestamp(time + deltaT.v),
                       getmining(miners[winner_idx]).tip.next_difficulty)} :
    \E newtip \in {from_parent_tip(r.tree.blocks, next_id,
                                   getmining(miners[winner_idx]).tip)} :
    LET winner == miners[winner_idx]
        winner_tip == getmining(winner).tip
        newtime == time + deltaT.v
        drawn == [NoCall EXCEPT !.op = "iter", !.time0 = time,
                     !.until = maxruntime, !.deltaT = deltaT, !.u = u,
                     !.ratesum = ratesum, !.winner = winner_idx]
    IN  IF Exceeds(time, deltaT, maxruntime)
        THEN /\ time' = maxruntime
             /\ running' = FALSE
             /\ last' = [drawn EXCEPT !.exceeded = TRUE]
             /\ UNCHANGED <<treeVars, miners>>
        ELSE /\ time' = newtime
             /\ next_id' = next_id + 1
             /\ SetTree(r.tree)
             /\ IF r.exc # "none"
                THEN \* newblock raised: run is left by the exception
                     /\ running' = FALSE
                     /\ last' = [drawn EXCEPT !.exc = r.exc,
                                    !.parent = winner_tip.block, !.newid = next_id]
                     /\ UNCHANGED miners
                ELSE /\ miners' =
                          IF minedblock(winner, newtip) THEN miners
                          ELSE [i \in 1..Len(miners) |->
                                   receiveblock(r.tree.blocks, miners[i], newtip)]
                     \* line 198 reads self.debug
                     /\ running' = ("debug" \in SimulationAttrs)
                     /\ last' = [drawn EXCEPT
                                    !.exc = IF "debug" \in SimulationAttrs
                                            THEN "none" ELSE "AttributeError",
                                    !.parent = winner_tip.block, !.newid = next_id,
                                    !.committed = TRUE,
                                    !.delivered = ~minedblock(winner, newtip)]

RunIterWithin(maxid) ==
    /\ running
    /\ ~stopping
    /\ next_id <= maxid
    /\ IF Len(miners) = 0 \/ Len(miners) > TipsCapacity
       THEN \* ratesum[-1] of an empty array, or tips[45] = tip: IndexError
            /\ running' = FALSE
            /\ last' = [NoCall EXCEPT !.op = "iter", !.exc = "IndexError",
                           !.time0 = time, !.until = maxruntime]
            /\ UNCHANGED <<treeVars, miners, time>>
       ELSE \E deltaT \in ExponentialDraws(cumsum(Rates(miners))[Len(miners)]) :
            \E u \in UniformDraws(cumsum(Rates(miners))) :
                Iteration(deltaT, u)
    \* maxruntime is a local of run: it is gone when run is left
    /\ maxruntime' = IF running' THEN maxruntime ELSE 0
    /\ UNCHANGED <<stopping, tipVars>>

RunIter == RunIterWithin(MaxBlocks)

\* The miners a caller may construct on the tree as it is.
Thresholds == {RInt(InitialDifficulty), RInt(InitialDifficulty + 1)}

\* line 137: the tip every new miner starts from
StartTip == from_block(blocks, bestblock)

NewMiners ==
    LET starttip == StartTip
    IN  {BasicMiner(starttip, h) : h \in 1..MaxHashrate}
        \cup {SwitchMiner(starttip, MaxHashrate, th) : th \in Thresholds}

\* Spec: a Simulation on a fresh BlockTree, driven by its caller.
Next ==
    \/ \E m \in NewMiners : AddMiner(m)
    \/ \E i \in 1..Len(miners) : PopMiner(i)
    \/ \E dt \in 1..MaxTicks : AdvanceTime(dt)
    \/ \E until \in 0..MaxTicks : RunCall(until)
    \/ RunIter

Spec == Init /\ [][Next]_vars

\* SpecTree: a BlockTree on which a caller calls newblock, on any parent of
\* the tree, with any timestamp and difficulty.
NextTree ==
    \E p \in DOMAIN blocks, ts \in 0..MaxStamp, d \in 0..MaxDifficulty :
        NewBlock(p, ts, RInt(d))

SpecTree == Init /\ [][NextTree]_vars

(***************************************************************************)
(* SpecTip: one chain grown block by block from genesis by newblock, with  *)
(* the tip of its head built the fast way (from the parent's fast tip),    *)
(* the slow way (from_block) and the fast way from the parent's slow tip.  *)
(* The chain's timestamps and difficulties are drawn once, in InitTip.     *)
(***************************************************************************)
Spacings == {0, 600, 700, 1300}
Jumps == {0, 10, 1000000}
Steps == {0, 1}

Plans == [spacing : Spacings, jump : Jumps, step : Steps]

\* the block at height k: timestamps never decrease along the chain
PlanTimestamp(pl, k) == pl.spacing * k + (IF k >= 2 THEN pl.jump ELSE 0)
PlanDifficulty(pl, k) == RInt(InitialDifficulty + pl.step * (k % 2))

InitTip ==
    /\ blocks = BlockTreeInit(RInt(InitialDifficulty)).blocks
    /\ points = BlockTreeInit(RInt(InitialDifficulty)).points
    /\ nextpoint = BlockTreeInit(RInt(InitialDifficulty)).nextpoint
    /\ bestblock = BlockTreeInit(RInt(InitialDifficulty)).bestblock
    /\ next_id = 1
    /\ miners = <<>>
    /\ time = 0
    /\ stopping = FALSE
    /\ running = FALSE
    /\ maxruntime = 0
    /\ last = NoCall
    /\ plan \in Plans
    /\ tips = [inc |-> from_block(blocks, 0), slow |-> from_block(blocks, 0),
               mixed |-> from_block(blocks, 0)]

TipGrow ==
    /\ next_id <= MaxHeight
    /\ LET r == newblock(CurrentTree, next_id, tips.inc.block,
                         PlanTimestamp(plan, next_id), PlanDifficulty(plan, next_id))
       IN  /\ SetTree(r.tree)
           /\ tips' = [inc |-> from_parent_tip(r.tree.blocks, next_id, tips.inc),
                       slow |-> from_block(r.tree.blocks, next_id),
                       mixed |-> from_parent_tip(r.tree.blocks, next_id, tips.slow)]
           /\ last' = [NoCall EXCEPT !.op = "newblock", !.exc = r.exc,
                          !.parent = tips.inc.block, !.newid = next_id]
    /\ next_id' = next_id + 1
    /\ UNCHANGED <<simVars, plan>>

NextTip == TipGrow

SpecTip == InitTip /\ [][NextTip]_vars

(***************************************************************************)
(* SpecMiner: one miner driven directly by a caller.  The caller extends   *)
(* the chain at its head with newblock, hands the miner the tip of any     *)
(* block of the tree, in any order, and polls the miner's offer.           *)
(***************************************************************************)
\* the block the marker of the best block stands on: the head of its chain
ChainHead == points[nextpoint[bestblock]].block

MinerThresholds == Thresholds \cup {RInt(1)}

\* the miners a caller may construct on the tree as it is
LoneMiners ==
    NewMiners \cup {SwitchMiner(StartTip, MaxHashrate, th) : th \in MinerThresholds}

InitMiner ==
    /\ blocks = BlockTreeInit(RInt(InitialDifficulty)).blocks
    /\ points = BlockTreeInit(RInt(InitialDifficulty)).points
    /\ nextpoint = BlockTreeInit(RInt(InitialDifficulty)).nextpoint
    /\ bestblock = BlockTreeInit(RInt(InitialDifficulty)).bestblock
    /\ next_id = 1
    /\ miners \in {<<m>> : m \in LoneMiners}
    /\ time = 0
    /\ stopping = FALSE
    /\ running = FALSE
    /\ maxruntime = 0
    /\ last = NoCall
    /\ plan = NoPlan
    /\ tips = NoTips

\* A caller's m.receiveblock(MiningTip.from_block(b), time) on miner i
Receive(i, b) ==
    /\ miners' = [miners EXCEPT ![i] = receiveblock(blocks, @, from_block(blocks, b))]
    /\ last' = [NoCall EXCEPT !.op = "receiveblock", !.winner = i, !.newid = b]
    /\ UNCHANGED <<treeVars, next_id, time, stopping, running, maxruntime, tipVars>>

\* A caller's m.getmining() on miner i
Poll(i) ==
    /\ last' = [NoCall EXCEPT !.op = "getmining", !.winner = i,
                   !.offer = <<getmining(miners[i])>>]
    /\ UNCHANGED <<treeVars, next_id, simVars, tipVars>>

NextMiner ==
    \/ \E d \in 0..MaxDifficulty : NewBlock(ChainHead, 0, RInt(d))
    \/ \E i \in 1..Len(miners), b \in DOMAIN blocks : Receive(i, b)
    \/ \E i \in 1..Len(miners) : Poll(i)

SpecMiner == InitMiner /\ [][NextMiner]_vars

(***************************************************************************)
(* SpecAdd: a BlockTree to which a caller adds Block objects of its own    *)
(* making with addblock, beside newblock calls.                            *)
(***************************************************************************)
\* The Block objects a caller may build: any id, on a parent that is in the
\* tree or on a Block that was never added to it.
CallerBlocks ==
    {IF p \in DOMAIN blocks
     THEN NewBlockRecord(CurrentTree, id, p, 0, RInt(1))
     ELSE Block(id, p, 1, 0, RInt(1), RInt(1)) :
        id \in 0..MaxCalls, p \in 0..MaxCalls}

\* A caller's blocktree.addblock(block)
AddBlock(block) ==
    /\ ~running
    /\ LET r == addblock(CurrentTree, block)
       IN  /\ SetTree(r.tree)
           /\ last' = [NoCall EXCEPT !.op = "addblock", !.exc = r.exc,
                          !.parent = block.parent, !.newid = block.id,
                          !.onpoint = IF block.parent \in DOMAIN nextpoint
                                      THEN OnPoint(CurrentTree, block.parent)
                                      ELSE FALSE]
    /\ UNCHANGED <<next_id, simVars, tipVars>>

NextAdd ==
    \/ \E block \in CallerBlocks : AddBlock(block)
    \/ \E p \in DOMAIN blocks : NewBlock(p, 0, RInt(1))

SpecAdd == Init /\ [][NextAdd]_vars

(***************************************************************************)
(* SpecPoll: a Simulation constructed on a fresh BlockTree with a list of  *)
(* miners -- any mix of up to MaxCrew miners, or a crowd of equal miners   *)
(* around the size of the tips array -- on which run is called.            *)
(***************************************************************************)
CrowdSizes == {TipsCapacity - 1, TipsCapacity, TipsCapacity + 1}

\* the miners of a mixed collection: all of hashrate MaxHashrate, a
\* BasicMiner and SwitchMiners that mine and that do not
PollMiners ==
    {BasicMiner(StartTip, MaxHashrate)}
    \cup {SwitchMiner(StartTip, MaxHashrate, th) : th \in Thresholds}

Crews ==
    UNION {[1..n -> PollMiners] : n \in 1..MaxCrew}
    \cup {[i \in 1..n |-> BasicMiner(StartTip, MaxHashrate)] : n \in CrowdSizes}

InitPoll ==
    /\ blocks = BlockTreeInit(RInt(InitialDifficulty)).blocks
    /\ points = BlockTreeInit(RInt(InitialDifficulty)).points
    /\ nextpoint = BlockTreeInit(RInt(InitialDifficulty)).nextpoint
    /\ bestblock = BlockTreeInit(RInt(InitialDifficulty)).bestblock
    /\ next_id = 1
    /\ miners \in Crews
    /\ time = 0
    /\ stopping = FALSE
    /\ running = FALSE
    /\ maxruntime = 0
    /\ last = NoCall
    /\ plan = NoPlan
    /\ tips = NoTips

NextPoll ==
    \/ RunCall(MaxTicks)
    \/ RunIter

SpecPoll == InitPoll /\ [][NextPoll]_vars

(***************************************************************************)
(* SpecLate: the chain of SpecTip, followed block by block by one miner    *)
(* (its best tip is tips.inc); at some height a second miner is            *)
(* constructed from blocktree.bestblock, a Simulation is made of the two   *)
(* and run is called.                                                      *)
(***************************************************************************)
LatePlans == {pl \in Plans : pl.jump = 0 /\ pl.step = 1}

InitLate ==
    /\ blocks = BlockTreeInit(RInt(InitialDifficulty)).blocks
    /\ points = BlockTreeInit(RInt(InitialDifficulty)).points
    /\ nextpoint = BlockTreeInit(RInt(InitialDifficulty)).nextpoint
    /\ bestblock = BlockTreeInit(RInt(InitialDifficulty)).bestblock
    /\ next_id = 1
    /\ miners = <<>>
    /\ time = 0
    /\ stopping = FALSE
    /\ running = FALSE
    /\ maxruntime = 0
    /\ last = NoCall
    /\ plan \in LatePlans
    /\ tips = [inc |-> from_block(blocks, 0), slow |-> from_block(blocks, 0),
               mixed |-> from_block(blocks, 0)]

\* Simulation(blocktree, [follower, BasicMiner(blocktree, hashrate)])
LateJoin ==
    /\ miners = <<>>
    /\ miners' = <<BasicMiner(tips.inc, MaxHashrate),
                   BasicMiner(StartTip, MaxHashrate)>>
    /\ last' = NoCall
    /\ UNCHANGED <<treeVars, next_id, time, stopping, running, maxruntime, tipVars>>

NextLate ==
    \/ miners = <<>> /\ TipGrow
    \/ LateJoin
    \/ miners # <<>> /\ RunCall(MaxTicks)
    \/ RunIterWithin(MaxHeight + MaxTicks)

SpecLate == InitLate /\ [][NextLate]_vars

(***************************************************************************)
(* Claims on the block tree, checked under SpecTree.                       *)
(***************************************************************************)
Genesis == blocks[0]
InTree(b) == b \in DOMAIN blocks

\* the sum of the difficulties of the non-genesis blocks from genesis to b
RECURSIVE PathWork(_)
PathWork(b) ==
    IF blocks[b].parent = None THEN RInt(0)
    ELSE RAdd(PathWork(blocks[b].parent), blocks[b].difficulty)

\* C1: after any sequence of newblock calls, on any parents of the tree,
\* genesis has id 0, no parent, height 0, timestamp 0 and chainwork 0, every
\* other block of the tree has chainwork = parent.chainwork + difficulty and
\* height = parent.height + 1, and so every block's chainwork is the sum of
\* the difficulties on its path from genesis.
C1_ChainworkAndHeight ==
    /\ InTree(0)
    /\ Genesis.id = 0 /\ Genesis.parent = None /\ Genesis.height = 0
    /\ Genesis.timestamp = 0 /\ Genesis.chainwork = RInt(0)
    /\ \A b \in DOMAIN blocks :
          /\ blocks[b].id = b
          /\ b # 0 =>
                /\ InTree(blocks[b].parent)
                /\ blocks[b].chainwork =
                      RAdd(blocks[blocks[b].parent].chainwork, blocks[b].difficulty)
                /\ blocks[b].height = blocks[blocks[b].parent].height + 1
          /\ blocks[b].chainwork = PathWork(b)

\* C1 witness: a block two steps from genesis whose chainwork is more than
\* its own difficulty, in a tree on which a newblock call has also failed.
C1_Witness ==
    /\ \E b \in DOMAIN blocks :
          /\ blocks[b].height = 2
          /\ RLess(blocks[b].difficulty, blocks[b].chainwork)
    /\ next_id > Cardinality(DOMAIN blocks)

\* C2: bestblock is a block of the tree of maximal chainwork, and among the
\* blocks of that chainwork it is the one added first (ids grow with every
\* addition): a tie keeps the incumbent.
C2_BestIsEarliestHeaviest ==
    /\ InTree(bestblock)
    /\ \A b \in DOMAIN blocks :
          /\ RLeq(blocks[b].chainwork, blocks[bestblock].chainwork)
          /\ blocks[b].chainwork = blocks[bestblock].chainwork => bestblock <= b

\* C2 witness: a block added after the best block ties with it in chainwork,
\* and the best block is not genesis.
C2_Witness ==
    /\ bestblock # 0
    /\ \E b \in DOMAIN blocks :
          b > bestblock /\ blocks[b].chainwork = blocks[bestblock].chainwork

(***************************************************************************)
(* Claims on the tips, checked under SpecTip.                              *)
(***************************************************************************)
AllTips == {tips.inc, tips.slow, tips.mixed}

\* the window ends with the tip's block and every entry before is the parent
\* of the entry after it: the block preceded by its nearest ancestors, in order
IsOwnChain(tip) ==
    /\ Len(tip.history) >= 1
    /\ tip.history[Len(tip.history)] = tip.block
    /\ \A i \in 1..(Len(tip.history) - 1) :
          tip.history[i] = blocks[tip.history[i + 1]].parent

\* C3: the tip built for the head by the slow ancestor walk and the tip
\* built for it by extension from genesis have the same next_difficulty.
C3_SlowEqualsIncremental ==
    tips.slow.next_difficulty = tips.inc.next_difficulty

\* C4 as claimed: every tip's window has min(146, 1 + depth) entries and is
\* the tip's block preceded by its most recent ancestors.
C4_WindowIsMin146 ==
    \A tip \in AllTips :
        /\ Len(tip.history) = Min(146, 1 + blocks[tip.block].height)
        /\ IsOwnChain(tip)

\* C4 as amended: a tip built from a parent tip has min(147, 1 + depth)
\* entries, a tip built by from_block has min(146, 1 + depth) entries, and
\* either way the window is the tip's block preceded by its most recent
\* ancestors in chain order.
C4_WindowLengths ==
    /\ Len(tips.inc.history) = Min(147, 1 + blocks[tips.inc.block].height)
    /\ Len(tips.mixed.history) = Min(147, 1 + blocks[tips.mixed.block].height)
    /\ Len(tips.slow.history) = Min(146, 1 + blocks[tips.slow.block].height)
    /\ \A tip \in AllTips : IsOwnChain(tip)

\* C4 witness: a full window of 147 entries from which genesis has been
\* discarded, beside a from_block window of 146.
C4_Witness ==
    /\ Len(tips.inc.history) = 147
    /\ tips.inc.history[1] # 0
    /\ Len(tips.mixed.history) = 147
    /\ Len(tips.slow.history) = 146

\* the elapsed span and the work the adjustment of a full window looks at
SpanOf(tip) ==
    blocks[tip.history[Len(tip.history) - 1]].timestamp
        - blocks[tip.history[Len(tip.history) - 145]].timestamp

WorkOf(tip) ==
    RSub(blocks[tip.history[Len(tip.history) - 1]].chainwork,
         blocks[tip.history[Len(tip.history) - 145]].chainwork)

\* x = w * 600 / e for rationals x, w in lowest terms and an integer e > 0
IsWorkOverTime(x, w, e) == x = Rat(w.n * 600, w.d * e)

\* C5: with fewer than 147 entries in the window next_difficulty is the tip
\* block's own difficulty; otherwise it is (last.chainwork - first.chainwork)
\* * 600 / E with last = window[-2], first = window[-146] and E the span
\* last.timestamp - first.timestamp clamped into [43200, 172800]; a span of
\* 10 gives E = 43200 and a span of 1000000 gives E = 172800.
C5_DifficultyAdjustment ==
    \A tip \in AllTips :
        IF Len(tip.history) < 147
        THEN tip.next_difficulty = blocks[tip.block].difficulty
        ELSE LET span == SpanOf(tip)
                 E == IF span < 43200 THEN 43200
                      ELSE IF span > 172800 THEN 172800 ELSE span
             IN  /\ IsWorkOverTime(tip.next_difficulty, WorkOf(tip), E)
                 /\ span = 10 => IsWorkOverTime(tip.next_difficulty, WorkOf(tip), 43200)
                 /\ span = 1000000 =>
                       IsWorkOverTime(tip.next_difficulty, WorkOf(tip), 172800)

\* C5 witness: a full window spanning 10 seconds, adjusted with E = 43200
\* to a difficulty other than the block's own.
C5_Witness ==
    /\ Len(tips.inc.history) = 147
    /\ SpanOf(tips.inc) = 10
    /\ tips.inc.next_difficulty # blocks[tips.inc.block].difficulty
    /\ IsWorkOverTime(tips.inc.next_difficulty, WorkOf(tips.inc), 43200)

(***************************************************************************)
(* Claims on the simulation, checked under Spec.                           *)
(***************************************************************************)
\* the step is an iteration of run that got as far as its draws
IterStep == running /\ last'.op = "iter" /\ last'.exc # "IndexError"

\* C6: an iteration of run(max_time) creates no block with a timestamp
\* after max_time; when the clock plus the drawn inter-arrival time is past
\* max_time, the iteration creates no block, delivers nothing to any miner,
\* sets the clock to max_time and leaves run.
C6_NeverPastMaxTime ==
    [][IterStep =>
         IF last'.deltaT.inf \/ time + last'.deltaT.v > maxruntime
         THEN /\ next_id' = next_id
              /\ blocks' = blocks /\ points' = points
              /\ nextpoint' = nextpoint /\ bestblock' = bestblock
              /\ miners' = miners
              /\ time' = maxruntime
              /\ ~running'
         ELSE /\ time' = time + last'.deltaT.v
              /\ time' <= maxruntime
              /\ \A b \in DOMAIN blocks' \ DOMAIN blocks :
                    blocks'[b].timestamp * TicksPerSecond <= maxruntime]_vars

\* C6 witness: an iteration whose finite draw fell past max_time has set the
\* clock to max_time, in a tree to which run had already added a block.
C6_Witness ==
    /\ last.op = "iter" /\ last.exceeded /\ ~last.deltaT.inf
    /\ last.time0 < last.until /\ last.time0 + last.deltaT.v > last.until
    /\ time = last.until /\ ~running
    /\ \E b \in DOMAIN blocks : blocks[b].timestamp > 0

\* C7: when newblock is called with a parent that already has a child (the
\* first child has advanced the parent's marker), the call succeeds and
\* the tree holds two distinct markers, one on each child, joined under a
\* fork marker on the shared parent.
C7_SiblingsFork ==
    (/\ last.op = "newblock"
     /\ \E c \in DOMAIN blocks : c # last.newid /\ blocks[c].parent = last.parent)
    => /\ last.exc = "none"
       /\ last.newid \in DOMAIN nextpoint
       /\ points[nextpoint[last.newid]].block = last.newid
       /\ \A c \in DOMAIN blocks :
             (c # last.newid /\ blocks[c].parent = last.parent) =>
                /\ nextpoint[c] # nextpoint[last.newid]
                /\ \E fp \in 1..Len(points) :
                      /\ points[fp].block = last.parent
                      /\ \E i, j \in 1..Len(points[fp].forks) :
                            /\ points[fp].forks[i] = nextpoint[c]
                            /\ points[fp].forks[j] = nextpoint[last.newid]

\* the last iteration polled miners that all offered zero hashrate
AllOfferedZero ==
    /\ last.op = "iter" /\ last.ratesum # <<>>
    /\ last.ratesum[Len(last.ratesum)].n = 0

\* C9: an iteration in which every miner offers zero hashrate ends with an
\* explicit outcome of its own; it does not return as if the time limit had
\* been reached, with the clock set to until_time.
C9_ZeroRateSurfaced ==
    AllOfferedZero =>
        /\ last.exc # "none"
        /\ ~last.exceeded
        /\ ~(time = last.until /\ last.time0 < last.until)

RECURSIVE RateOfRange(_, _, _)
RateOfRange(ms, lo, hi) ==
    IF lo > hi THEN RInt(0)
    ELSE IF lo = hi
    THEN Rat(getmining(ms[lo]).hr * getmining(ms[lo]).tip.next_difficulty.d,
             getmining(ms[lo]).tip.next_difficulty.n)
    ELSE LET mid == (lo + hi) \div 2
         IN  RAdd(RateOfRange(ms, lo, mid), RateOfRange(ms, mid + 1, hi))

PrefixRate(ms, i) == RateOfRange(ms, 1, i)

C11_StrictThreshold ==
    (last.op = "getmining" /\ miners[last.winner].kind = "switch") =>
        LET m == miners[last.winner]
            nd == m.besttip.next_difficulty
            th == m.diff_threshold
            below == nd.n * th.d < th.n * nd.d
        IN  /\ m.hashrate > 0
            /\ last.offer[1].tip = m.besttip
            /\ below => last.offer[1].hr = m.hashrate
            /\ ~below => last.offer[1].hr = 0

\* C11 witness: a SwitchMiner that has moved to a received tip whose
\* next_difficulty equals its threshold is polled and offers zero.
C11_Witness ==
    /\ last.op = "getmining"
    /\ miners[last.winner].kind = "switch"
    /\ miners[last.winner].besttip.block # 0
    /\ miners[last.winner].besttip.next_difficulty = miners[last.winner].diff_threshold
    /\ last.offer[1].hr = 0

\* the chainwork of the block a tip stands on
TipWork(tip) == blocks[tip.block].chainwork

\* C18: receiveblock with the tip of any block of the tree never lowers the
\* chainwork of the miner's best tip: the best tip becomes the delivered tip
\* when that has strictly greater chainwork and is left as it was when the
\* delivered tip has equal or smaller chainwork; and a BasicMiner's offer is
\* always its full hashrate at its best tip.
C18_BestTipNeverRegresses ==
    /\ [][last'.op = "receiveblock" =>
            LET i == last'.winner
                old == miners[i].besttip
                new == miners'[i].besttip
                given == from_block(blocks, last'.newid)
            IN  /\ RLeq(TipWork(old), TipWork(new))
                /\ RLess(TipWork(old), TipWork(given)) => new = given
                /\ RLeq(TipWork(given), TipWork(old)) => new = old
                /\ \A j \in 1..Len(miners) : j # i => miners'[j] = miners[j]
                /\ Len(miners') = Len(miners)]_vars
    /\ [](\A i \in 1..Len(miners) :
             miners[i].kind = "basic" =>
                getmining(miners[i]) = [hr |-> miners[i].hashrate,
                                        tip |-> miners[i].besttip])

\* C18 witness: the miner has been handed the tip of another block whose
\* chainwork ties with its best tip's, and has kept its best tip, which is
\* not the tip it started from.
C18_Witness ==
    /\ last.op = "receiveblock"
    /\ miners[last.winner].besttip.block # 0
    /\ miners[last.winner].besttip.block # last.newid
    /\ TipWork(miners[last.winner].besttip) = blocks[last.newid].chainwork

(***************************************************************************)
(* Claims on addblock and the markers, checked under SpecAdd and SpecTree. *)
(***************************************************************************)
\* C12: addblock with a block whose id is in the tree, or whose parent is
\* not, fails and leaves the marker map, the markers and bestblock as they
\* were; addblock with a fresh id and a parent of the tree does not fail and
\* adds the block, whether the parent's marker is a tip on the parent, a
\* fork on the parent or stands further down the chain.
C12_AbortsOnlyOnBadInput ==
    [][last'.op = "addblock" =>
         IF last'.newid \in DOMAIN nextpoint \/ last'.parent \notin DOMAIN nextpoint
         THEN /\ last'.exc # "none"
              /\ nextpoint' = nextpoint /\ points' = points
              /\ bestblock' = bestblock /\ blocks' = blocks
         ELSE /\ last'.exc = "none"
              /\ last'.newid \in DOMAIN nextpoint'
              /\ blocks'[last'.newid].parent = last'.parent]_vars

\* a is b or an ancestor of b
RECURSIVE IsAtOrAbove(_, _)
IsAtOrAbove(a, b) ==
    \/ a = b
    \/ blocks[b].parent # None /\ IsAtOrAbove(a, blocks[b].parent)

Children(b) == {c \in DOMAIN blocks : blocks[c].parent = b}
MarkersOn(b) == {k \in 1..Len(points) : points[k].block = b}

\* C14: every chain tip and every fork junction carries exactly one marker,
\* no marker stands on a block with exactly one child, every block's entry
\* in the marker map is the nearest marker at or downstream of it; and a
\* newblock call on an interior block p succeeds, puts a fork marker on p
\* upstream of both the old downstream marker and the new block's marker,
\* and maps p to that fork marker.
C14_MarkersConsistent ==
    /\ \A b \in DOMAIN blocks :
          /\ Cardinality(Children(b)) # 1 => Cardinality(MarkersOn(b)) = 1
          /\ Cardinality(Children(b)) = 1 => MarkersOn(b) = {}
          /\ b \in DOMAIN nextpoint
          /\ IsAtOrAbove(b, points[nextpoint[b]].block)
          /\ \A k \in 1..Len(points) :
                (IsAtOrAbove(b, points[k].block)
                    /\ IsAtOrAbove(points[k].block, points[nextpoint[b]].block))
                => k = nextpoint[b]
    /\ (last.op = "newblock" /\ ~last.onpoint) =>
          /\ last.exc = "none"
          /\ last.newid \in DOMAIN nextpoint
          /\ \E fp \in MarkersOn(last.parent) :
                /\ nextpoint[last.parent] = fp
                /\ points[nextpoint[last.newid]].block = last.newid
                /\ points[nextpoint[last.newid]].parentpoint = fp
                /\ \E c \in Children(last.parent) :
                      c # last.newid /\ points[nextpoint[c]].parentpoint = fp

(***************************************************************************)
(* Further claims on the simulation, checked under Spec.                   *)
(***************************************************************************)
\* the miners polled by the last iteration offered a positive total rate
SomeOfferedPositive ==
    /\ last.op = "iter" /\ last.ratesum # <<>>
    /\ last.ratesum[Len(last.ratesum)].n > 0

\* C13: with a miner offering positive hashrate, an iteration of run either
\* takes the time-exceeded branch, leaving run with the clock at until_time,
\* or commits its block, delivers it and goes on to the next iteration
\* without raising: run is left only by the time-exceeded branch (or the
\* stop flag).
C13_RunEndsOnlyOnTimeOrStop ==
    SomeOfferedPositive =>
        IF last.exceeded
        THEN ~running /\ time = last.until /\ last.exc = "none"
        ELSE /\ last.committed /\ last.delivered
             /\ last.exc = "none"
             /\ running \/ stopping

\* C15: every block's timestamp is at least its parent's, and an iteration
\* of run never leaves the clock earlier than it found it, whatever
\* until_time the run was called with.
C15_TimestampsMonotone ==
    /\ \A b \in DOMAIN blocks :
          blocks[b].parent # None =>
             blocks[blocks[b].parent].timestamp <= blocks[b].timestamp
    /\ last.op = "iter" => last.time0 <= time

\* C16: in a committing iteration the new block's parent is the block of
\* the tip the winner offered, its difficulty that tip's next_difficulty and
\* its timestamp the integer part of the advanced clock; the block is
\* delivered (the hook of the provided miners never suppresses), and every
\* miner of the collection, the winner included, is left either with the
\* best tip it had, when that was at least as heavy, or with the new tip,
\* which is the offered tip's window extended by the new block; so every
\* miner's best tip is then at least as heavy as the new block.
C16_CommitDelivers ==
    [][(IterStep /\ last'.committed) =>
         LET offered == getmining(miners[last'.winner]).tip
             id == last'.newid
             nb == blocks'[id]
         IN  /\ id \notin DOMAIN blocks
             /\ nb.parent = offered.block
             /\ nb.difficulty = offered.next_difficulty
             /\ time' = time + last'.deltaT.v
             /\ nb.timestamp * TicksPerSecond <= time'
             /\ time' < (nb.timestamp + 1) * TicksPerSecond
             /\ last'.delivered
             /\ Len(miners') = Len(miners)
             /\ \A i \in 1..Len(miners) :
                   LET old == miners[i].besttip
                       new == miners'[i].besttip
                   IN  /\ miners'[i] = [miners[i] EXCEPT !.besttip = new]
                       /\ \/ new = old /\ RLeq(nb.chainwork, blocks[old.block].chainwork)
                          \/ /\ new.block = id
                             /\ new.history = Append(LastK(offered.history, 146), id)
                             /\ RLess(blocks[old.block].chainwork, nb.chainwork)
                       /\ RLeq(nb.chainwork, blocks'[new.block].chainwork)]_vars

\* C16 witness: the second of two miners has won the second block at a
\* clock that is not a whole second, and both miners stand on the new tip.
C16_Witness ==
    /\ last.op = "iter" /\ last.committed /\ last.delivered
    /\ Len(miners) = 2 /\ last.winner = 2 /\ last.newid = 2
    /\ time % TicksPerSecond # 0
    /\ \A i \in 1..Len(miners) : miners[i].besttip.block = last.newid

(***************************************************************************)
(* Claims on the poll of the miners, checked under SpecPoll.               *)
(***************************************************************************)
\* C17: an iteration of run on a collection of one or more miners, of any
\* size, polls every miner once in the collection's order (the cumulative
\* rates are the prefix sums over all of them), does not fail, and returns
\* a winner of the collection whose offered tip the committed block is
\* built on.
C17_PollsEveryMiner ==
    [][(running /\ last'.op = "iter" /\ Len(miners) >= 1) =>
         /\ last'.exc # "IndexError"
         /\ last'.ratesum = [i \in 1..Len(miners) |-> PrefixRate(miners, i)]
         /\ last'.winner \in 1..Len(miners)
         /\ last'.committed =>
               blocks'[last'.newid].parent =
                  getmining(miners[last'.winner]).tip.block]_vars

ChainDifficulty(b) ==
    LET chain == Visited(blocks, b, 147)
    IN  IF Len(chain) < 147 THEN blocks[b].difficulty
        ELSE LET w == RSub(blocks[chain[2]].chainwork, blocks[chain[146]].chainwork)
                 span == blocks[chain[2]].timestamp - blocks[chain[146]].timestamp
                 E == IF span < 43200 THEN 43200
                      ELSE IF span > 172800 THEN 172800 ELSE span
             IN  Rat(w.n * 600, w.d * E)

\* C19: every miner of the collection, the one that followed the chain and
\* the one constructed from blocktree.bestblock alike, offers the
\* difficulty adjustment value of its best tip's block, so two miners on
\* the same block offer the same next_difficulty; and every block committed
\* by run has the difficulty adjustment value of its parent.
C19_SameDifficultyForAll ==
    /\ \A i \in 1..Len(miners) :
          getmining(miners[i]).tip.next_difficulty
             = ChainDifficulty(getmining(miners[i]).tip.block)
    /\ \A i, j \in 1..Len(miners) :
          miners[i].besttip.block = miners[j].besttip.block =>
             miners[i].besttip.next_difficulty = miners[j].besttip.next_difficulty
    /\ (last.op = "iter" /\ last.committed) =>
          blocks[last.newid].difficulty = ChainDifficulty(blocks[last.newid].parent)

====
